---- MODULE Spec2Model ----
\* Bootloader client (src/main.rs): one invocation of the tool, i.e. one
\* Client on one TCP connection running one sub-command, together with the
\* peer (the bootloader) that answers on the socket.
EXTENDS Integers, Sequences, FiniteSets, TLC

\* ---------------------------------------------------------------- bounds
\* receive timeouts allowed in one run
MaxTimeouts == 1
\* largest image length of the padding specification
MaxPadLen == 66

\* ------------------------------------------------------- program constants
\* erase granularity used by the padding computation
Granularity == 32
\* address passed to erase_flash by send_program_request and by main
EraseAddress == 134283264
\* length passed to erase_flash by the Erase sub-command
EraseCmdLength == 4096
\* default of --lma
DefaultLma == 134283264
\* size of the receive buffer of get_reply
BufSize == 256
\* fill byte of the padding
FillByte == 255

\* BootloadError discriminants (declaration order)
Success == 0
InvalidAddress == 1
LengthNotMultiple32 == 2
LengthTooLong == 3
DataLengthIncorrect == 4
EraseError == 5
WriteError == 6
FlashError == 7
NetworkError == 8
InternalError == 9
PartialWriteSuccess == 10

\* --------------------------------------------------------------- inputs
Min(a, b) == IF a < b THEN a ELSE b
Max(a, b) == IF a > b THEN a ELSE b

\* contents of a firmware file of length L
Image(L, s) == [k \in 1..L |-> (s + k) % 256]
ImageLens == {0, 20, 32, 40}
Seeds == {0, 250}
ChunkSizes == {0, 24, 32}
LmaValues == {DefaultLma, 134348800}
Commands == {"Info", "Program", "Configure", "Boot", "Erase"}
\* replies the bootloader may give; 200 takes two bytes on the wire
PartialCount == 200
DeviceReplies ==
  { [tag |-> Success, n |-> 0], [tag |-> EraseError, n |-> 0],
    [tag |-> FlashError, n |-> 0], [tag |-> PartialWriteSuccess, n |-> PartialCount] }

VARIABLES
  command,     \* args.command
  lma,         \* Program.lma
  file,        \* bytes of Program.binfile on disk
  chunk_size,  \* Client.chunk_size
  pc,          \* position of the single thread
  binfile,     \* local Vec of send_program_request
  len,         \* local len of send_program_request
  segments,    \* binfile.chunks(chunk_size)
  i,           \* loop index of the write loop
  sent,        \* commands written to the socket, in order
  stream,      \* reply bytes sent by the peer and not yet read
  answered,    \* number of commands the peer has answered
  closed,      \* peer has closed the connection
  timeouts,    \* reads that failed
  reply,       \* value returned by the last get_reply
  nread,       \* value returned by the last socket.read (-1: error)
  buf,         \* filled part of the last receive buffer
  acked,       \* highest command whose reply bytes were read
  replyFor,    \* command answered by the first byte of the last read (0: none)
  recvs,       \* number of get_reply calls
  failedAt,    \* first command whose get_reply was not Ok(Success)
  result       \* value returned by the Client method

vars == <<command, lma, file, chunk_size, pc, binfile, len, segments, i, sent,
          stream, answered, closed, timeouts, reply, nread, buf, acked, replyFor,
          recvs, failedAt, result>>

inputs == <<command, lma, file, chunk_size>>
locals == <<binfile, len, segments, i>>
peer == <<stream, answered, closed>>
recv == <<timeouts, reply, nread, buf, acked, replyFor, recvs, failedAt>>

\* ----------------------------------------------------------- wire codec
Pow128(e) == IF e = 0 THEN 1 ELSE IF e = 1 THEN 128 ELSE IF e = 2 THEN 16384
             ELSE IF e = 3 THEN 2097152 ELSE 268435456

\* postcard varint(u32), little-endian base 128
RECURSIVE EncodeVarint(_)
EncodeVarint(n) ==
  IF n < 128 THEN <<n>> ELSE <<(n % 128) + 128>> \o EncodeVarint(n \div 128)

\* bytes of a BootloadError as the peer serialises it
EncodeReply(r) ==
  IF r.tag = PartialWriteSuccess
    THEN EncodeVarint(r.tag) \o EncodeVarint(r.n)
    ELSE EncodeVarint(r.tag)

\* byte p of the receive buffer: vec![0; 256] overwritten by the bytes read
ByteAt(bytes, p) == IF p <= Len(bytes) THEN bytes[p] ELSE 0

BadVarint == [ok |-> FALSE, val |-> 0, next |-> 0]

\* decode a varint(u32) starting at byte p of the buffer, k-th byte of it
RECURSIVE TakeVarint(_, _, _)
TakeVarint(bytes, p, k) ==
  IF p > BufSize THEN BadVarint
  ELSE LET v == ByteAt(bytes, p) IN
    IF v < 128
      THEN IF k = 4 /\ v > 15 THEN BadVarint
           ELSE [ok |-> TRUE, val |-> v * Pow128(k), next |-> p + 1]
      ELSE IF k = 4 THEN BadVarint
           ELSE LET r == TakeVarint(bytes, p + 1, k + 1) IN
                IF r.ok THEN [ok |-> TRUE, val |-> (v - 128) * Pow128(k) + r.val,
                              next |-> r.next]
                ELSE BadVarint

OkReply(t, n) == [ok |-> TRUE, err |-> "none", tag |-> t, n |-> n]
ErrReply(e) == [ok |-> FALSE, err |-> e, tag |-> 0, n |-> 0]
NoReply == ErrReply("none")

\* postcard::from_bytes::<BootloadError>(&buf) on the whole 256-byte buffer,
\* with the result and the number of buffer bytes the decoder consumed
FromBytes(bytes) ==
  LET t == TakeVarint(bytes, 1, 0) IN
  IF ~t.ok \/ t.val > PartialWriteSuccess
    THEN [reply |-> ErrReply("Other"), used |-> 0]
  ELSE IF t.val < PartialWriteSuccess
    THEN [reply |-> OkReply(t.val, 0), used |-> t.next - 1]
  ELSE LET c == TakeVarint(bytes, t.next, 0) IN
    IF c.ok THEN [reply |-> OkReply(PartialWriteSuccess, c.val), used |-> c.next - 1]
    ELSE [reply |-> ErrReply("Other"), used |-> 0]

\* most significant byte first
ToLeBytes_be(n) == <<(n \div 16777216) % 256, (n \div 65536) % 256,
                     (n \div 256) % 256, n % 256>>

\* u32::to_le_bytes
ToLeBytes(n) == <<n % 256, (n \div 256) % 256, (n \div 65536) % 256,
                  (n \div 16777216) % 256>>
FromLeBytes(b) == b[1] + 256 * b[2] + 65536 * b[3] + 16777216 * b[4]

\* ------------------------------------------------------------- padding
\* pads a full granule when the length is already aligned
Padding_mut(l) == Granularity - (l % Granularity)

Padding(l) == IF l % Granularity = 0 THEN 0 ELSE Granularity - (l % Granularity)

\* Vec::resize(new_len, value)
Resize(v, newLen, value) ==
  [k \in 1..newLen |-> IF k <= Len(v) THEN v[k] ELSE value]

\* loses the final short chunk
Chunks_drop(v, size) ==
  LET n == Len(v) \div size IN
  [c \in 1..n |-> SubSeq(v, (c - 1) * size + 1, Min(c * size, Len(v)))]

\* yields a trailing empty chunk when size divides the length
Chunks_extra(v, size) ==
  LET n == (Len(v) \div size) + 1 IN
  [c \in 1..n |-> SubSeq(v, (c - 1) * size + 1, Min(c * size, Len(v)))]

\* slice::chunks(size), size > 0
Chunks(v, size) ==
  LET n == (Len(v) + size - 1) \div size IN
  [c \in 1..n |-> SubSeq(v, (c - 1) * size + 1, Min(c * size, Len(v)))]

\* ---------------------------------------------------------------- init
InitWith(c, l, f, cs) ==
  /\ command = c /\ lma = l /\ file = f /\ chunk_size = cs
  /\ pc = "main"
  /\ binfile = <<>> /\ len = 0 /\ segments = <<>> /\ i = 0
  /\ sent = <<>>
  /\ stream = <<>> /\ answered = 0 /\ closed = FALSE
  /\ timeouts = 0 /\ reply = NoReply /\ nread = 0 /\ buf = <<>>
  /\ acked = 0 /\ replyFor = 0 /\ recvs = 0 /\ failedAt = 0
  /\ result = "none"

Init ==
  \/ \E l \in LmaValues, L \in ImageLens, cs \in ChunkSizes :
       InitWith("Program", l, Image(L, 0), cs)
  \/ \E c \in Commands \ {"Program"} : InitWith(c, DefaultLma, <<>>, 32)

\* ------------------------------------------------------------ get_reply
\* let mut buf = vec![0; 256]; self.socket.read(&mut buf)?; from_bytes(&buf)
GetReply ==
  /\ recvs' = recvs + 1
  /\ \/ \E n \in 1..Min(Len(stream), BufSize) :
          LET bytes == [k \in 1..n |-> stream[k].b] IN
          /\ nread' = n
          /\ buf' = bytes
          /\ reply' = FromBytes(bytes).reply
          /\ stream' = SubSeq(stream, n + 1, Len(stream))
          /\ acked' = Max(acked, stream[n].c)
          /\ replyFor' = stream[1].c
          /\ timeouts' = timeouts
     \/ /\ stream = <<>> /\ closed
        /\ nread' = 0
        /\ buf' = <<>>
        /\ reply' = FromBytes(<<>>).reply
        /\ replyFor' = 0
        /\ UNCHANGED <<stream, acked, timeouts>>
     \/ /\ stream = <<>> /\ ~closed /\ timeouts < MaxTimeouts
        /\ nread' = -1
        /\ buf' = <<>>
        /\ reply' = ErrReply("TimedOut")
        /\ replyFor' = 0
        /\ timeouts' = timeouts + 1
        /\ UNCHANGED <<stream, acked>>
  /\ failedAt' = IF failedAt = 0 /\ reply' # OkReply(Success, 0)
                   THEN Len(sent) ELSE failedAt

\* ------------------------------------------------------------- actions
\* starts the write loop without erasing first
SendProgramRequest_noerase ==
  /\ pc = "main" /\ command = "Program"
  /\ len' = Len(file)
  /\ binfile' = Resize(file, Len(file) + Padding(Len(file)), FillByte)
  /\ IF chunk_size = 0
       THEN /\ segments' = <<>>
            /\ result' = "panic"
            /\ pc' = "done"
       ELSE /\ segments' = Chunks(binfile', chunk_size)
            /\ result' = result
            /\ pc' = IF segments' = <<>> THEN "erase_send" ELSE "write_send"
  /\ UNCHANGED <<inputs, i, sent, peer, recv>>

\* send_program_request up to the call of erase_flash
SendProgramRequest ==
  /\ pc = "main" /\ command = "Program"
  /\ len' = Len(file)
  /\ binfile' = Resize(file, Len(file) + Padding(Len(file)), FillByte)
  /\ IF chunk_size = 0
       THEN /\ segments' = <<>>
            /\ result' = "panic"
            /\ pc' = "done"
       ELSE /\ segments' = Chunks(binfile', chunk_size)
            /\ result' = result
            /\ pc' = "erase_send"
  /\ UNCHANGED <<inputs, i, sent, peer, recv>>

\* main, Commands::Erase
MainErase ==
  /\ pc = "main" /\ command = "Erase"
  /\ pc' = "erase_send"
  /\ UNCHANGED <<inputs, locals, sent, peer, recv, result>>

\* length argument of the erase_flash call; `len as u32` keeps every length
\* below 2^32, and all lengths here are far below it
EraseLength == IF command = "Program" THEN len ELSE EraseCmdLength

\* drops the write_all error and goes on to read the reply
EraseFlashSend_ignore ==
  /\ pc = "erase_send"
  /\ \/ /\ sent' = Append(sent, [tag |-> "Erase", address |-> EraseAddress,
                                 length |-> EraseLength, sector |-> <<>>,
                                 data |-> <<>>])
        /\ pc' = "erase_recv"
        /\ result' = result
     \/ /\ sent' = sent
        /\ pc' = "erase_recv"
        /\ result' = result
  /\ UNCHANGED <<inputs, locals, peer, recv>>

\* erase_flash: serialise and write_all
EraseFlashSend ==
  /\ pc = "erase_send"
  /\ \/ /\ sent' = Append(sent, [tag |-> "Erase", address |-> EraseAddress,
                                 length |-> EraseLength, sector |-> <<>>,
                                 data |-> <<>>])
        /\ pc' = "erase_recv"
        /\ result' = result
     \/ /\ sent' = sent
        /\ pc' = "done"
        /\ result' = "Err"
  /\ UNCHANGED <<inputs, locals, peer, recv>>

\* erase_flash: print get_reply, return Ok; then the caller goes on
EraseFlashReply ==
  /\ pc = "erase_recv"
  /\ GetReply
  /\ IF command = "Program" /\ Len(segments) > 0
       THEN pc' = "write_send" /\ result' = result
       ELSE pc' = "done" /\ result' = "Ok"
  /\ i' = 0
  /\ UNCHANGED <<inputs, binfile, len, segments, sent, answered, closed>>

\* write_flash: serialise and write_all(..).unwrap()
WriteFlashSend ==
  /\ pc = "write_send"
  /\ \/ /\ sent' = Append(sent, [tag |-> "Write", address |-> 0, length |-> 0,
                                 sector |-> ToLeBytes(i),
                                 data |-> segments[i + 1]])
        /\ pc' = "write_recv"
        /\ result' = result
     \/ /\ sent' = sent
        /\ pc' = "done"
        /\ result' = "panic"
  /\ UNCHANGED <<inputs, locals, peer, recv>>

\* sends Boot once the last segment has been written
WriteFlashReply_boot ==
  /\ pc = "write_recv"
  /\ GetReply
  /\ i' = i + 1
  /\ IF i + 1 < Len(segments)
       THEN pc' = "write_send" /\ result' = result /\ sent' = sent
       ELSE /\ pc' = "done" /\ result' = "Ok"
            /\ sent' = Append(sent, [tag |-> "Boot", address |-> 0, length |-> 0,
                                     sector |-> <<>>, data |-> <<>>])
  /\ UNCHANGED <<inputs, binfile, len, segments, answered, closed>>

\* sends the same segment again when its reply is not Success
WriteFlashReply_retry ==
  /\ pc = "write_recv"
  /\ GetReply
  /\ i' = IF reply' = OkReply(Success, 0) THEN i + 1 ELSE i
  /\ IF i' < Len(segments)
       THEN pc' = "write_send" /\ result' = result
       ELSE pc' = "done" /\ result' = "Ok"
  /\ UNCHANGED <<inputs, binfile, len, segments, sent, answered, closed>>

\* write_flash: print get_reply, return Ok; unwrap; next segment
WriteFlashReply ==
  /\ pc = "write_recv"
  /\ GetReply
  /\ i' = i + 1
  /\ IF i + 1 < Len(segments)
       THEN pc' = "write_send" /\ result' = result
       ELSE pc' = "done" /\ result' = "Ok"
  /\ UNCHANGED <<inputs, binfile, len, segments, sent, answered, closed>>

\* writes the Info command twice
SendInfoRequest_twice ==
  /\ pc = "main" /\ command = "Info"
  /\ \/ /\ sent' = sent \o
                   << [tag |-> "Info", address |-> 0, length |-> 0,
                       sector |-> <<>>, data |-> <<>>],
                      [tag |-> "Info", address |-> 0, length |-> 0,
                       sector |-> <<>>, data |-> <<>>] >>
        /\ result' = "Ok"
     \/ /\ sent' = sent
        /\ result' = "Err"
  /\ pc' = "done"
  /\ UNCHANGED <<inputs, locals, peer, recv>>

\* send_info_request
SendInfoRequest ==
  /\ pc = "main" /\ command = "Info"
  /\ \/ /\ sent' = Append(sent, [tag |-> "Info", address |-> 0, length |-> 0,
                                 sector |-> <<>>, data |-> <<>>])
        /\ result' = "Ok"
     \/ /\ sent' = sent
        /\ result' = "Err"
  /\ pc' = "done"
  /\ UNCHANGED <<inputs, locals, peer, recv>>

\* main, Commands::Boot
MainBoot ==
  /\ pc = "main" /\ command = "Boot"
  /\ \/ /\ sent' = Append(sent, [tag |-> "Boot", address |-> 0, length |-> 0,
                                 sector |-> <<>>, data |-> <<>>])
        /\ result' = "Ok"
     \/ /\ sent' = sent
        /\ result' = "panic"
  /\ pc' = "done"
  /\ UNCHANGED <<inputs, locals, peer, recv>>

\* main, Commands::Configure
MainConfigure ==
  /\ pc = "main" /\ command = "Configure"
  /\ pc' = "done"
  /\ result' = "Ok"
  /\ UNCHANGED <<inputs, locals, sent, peer, recv>>

\* the bootloader answers the oldest unanswered command
DeviceReply ==
  /\ ~closed /\ answered < Len(sent)
  /\ \E r \in DeviceReplies :
       LET bytes == EncodeReply(r) IN
       stream' = stream \o [k \in 1..Len(bytes) |-> [b |-> bytes[k], c |-> answered + 1]]
  /\ answered' = answered + 1
  /\ UNCHANGED <<inputs, pc, locals, sent, closed, recv, result>>

\* the bootloader closes the connection
PeerClose ==
  /\ ~closed
  /\ closed' = TRUE
  /\ UNCHANGED <<inputs, pc, locals, sent, stream, answered, recv, result>>

Next ==
  \/ SendProgramRequest
  \/ MainErase
  \/ EraseFlashSend
  \/ EraseFlashReply
  \/ WriteFlashSend
  \/ WriteFlashReply
  \/ SendInfoRequest
  \/ MainBoot
  \/ MainConfigure
  \/ DeviceReply
  \/ PeerClose

Spec == Init /\ [][Next]_vars

\* process outcome of main
Exit ==
  IF pc # "done" THEN "running"
  ELSE IF result = "panic" \/ (result = "Err" /\ command \in {"Program", "Erase"})
    THEN "panic" ELSE "ok"

TypeOK ==
  /\ command \in Commands
  /\ pc \in {"main", "erase_send", "erase_recv", "write_send", "write_recv", "done"}
  /\ result \in {"none", "Ok", "Err", "panic"}
  /\ nread \in -1..BufSize
  /\ answered <= Len(sent)
  /\ acked <= answered

\* padding and chunking alone, over every image length up to MaxPadLen
InitPad ==
  \E L \in 0..MaxPadLen, s \in Seeds, cs \in ChunkSizes :
    InitWith("Program", DefaultLma, Image(L, s), cs)

NextPad == SendProgramRequest

SpecPad == InitPad /\ [][NextPad]_vars

\* ------------------------------------------------------------ properties
IsWrite(m) == sent[m].tag = "Write"
IsErase(m) == sent[m].tag = "Erase"
LastSent == sent[Len(sent)]
SuccessReply == OkReply(Success, 0)
\* smallest multiple of the granularity that is >= L
PaddedLength(L) == ((L + Granularity - 1) \div Granularity) * Granularity

\* the last get_reply read the peer's answer to the latest command
ReadLatestReply == recvs > 0 /\ replyFor = Len(sent)

\* C1: in a programming run the first Write is not sent when the reply read
\* for the Erase is anything but Success.
NoWriteUnlessEraseSuccess ==
  [][(pc = "write_send" /\ i = 0 /\ ReadLatestReply /\ Len(sent') > Len(sent))
       => reply = SuccessReply]_vars

\* C2: the Write with sector index k+1 is sent only when the reply to the
\* Write with sector index k was Success, so nothing follows a failed Write.
AbortOnFirstWriteFailure ==
  [][(pc = "write_send" /\ i > 0 /\ ReadLatestReply /\ Len(sent') > Len(sent))
       => reply = SuccessReply]_vars

\* C3: the length of the Erase of a programming run is the padded length of
\* the image, a multiple of 32.
EraseLengthIsPadded ==
  command = "Program" =>
    \A m \in 1..Len(sent) :
      IsErase(m) => /\ sent[m].length = PaddedLength(Len(file))
                    /\ sent[m].length % Granularity = 0

\* C4: the address of the Erase of a programming run is the caller's lma.
EraseAddressIsLma ==
  command = "Program" =>
    \A m \in 1..Len(sent) : IsErase(m) => sent[m].address = lma

\* C5: once the reply to a Write is PartialWriteSuccess(n), the run is over
\* with a result other than Ok (so the next Write is not sent).
PartialWriteIsFatal ==
  (/\ sent # <<>> /\ IsWrite(Len(sent)) /\ pc # "write_recv"
   /\ ReadLatestReply /\ reply.ok /\ reply.tag = PartialWriteSuccess)
    => (pc = "done" /\ result # "Ok")

\* C6: a programming run returns Ok only if every get_reply of the run
\* returned Success.
SuccessOnlyIfAllSuccess ==
  (command = "Program" /\ result = "Ok") => failedAt = 0

\* C7: at most one command is in flight: every command but the latest has
\* had its reply read.
OneCommandInFlight == Len(sent) <= acked + 1

\* the last receive failed: read error, connection closed, or bytes that
\* do not decode to a reply within what was received
RecvFailed ==
  /\ recvs > 0
  /\ \/ nread <= 0
     \/ ~FromBytes(buf).reply.ok
     \/ FromBytes(buf).used > nread

\* C8: after a failed receive no further command is sent.
RecvFailureEndsOperation == [][RecvFailed => sent' = sent]_vars

\* C9: get_reply returns a Reply only when it was decoded entirely from
\* bytes that the read delivered.
ReplyOnlyFromReceivedBytes ==
  reply.ok => (nread >= 1 /\ FromBytes(buf).used <= nread)

\* C10: the padded image has the smallest multiple-of-32 length >= L, keeps
\* the original L bytes and every appended byte is 0xFF.
PaddingCorrect ==
  (command = "Program" /\ pc # "main") =>
    LET L == Len(file)
        P == Len(binfile)
    IN /\ P % Granularity = 0
       /\ P >= L
       /\ P - L < Granularity
       /\ (L % Granularity = 0 => P = L)
       /\ \A k \in 1..L : binfile[k] = file[k]
       /\ \A k \in (L + 1)..P : binfile[k] = FillByte

PaddingCorrectWitness ==
  /\ command = "Program" /\ pc # "main"
  /\ Len(file) % Granularity # 0
  /\ Len(binfile) > Len(file)
  /\ binfile[Len(binfile)] = FillByte

\* positions of the Write commands in sent, and their sector indices
WriteIdx == {m \in 1..Len(sent) : IsWrite(m)}
NumWrites == Cardinality(WriteIdx)
SectorIndex(m) == FromLeBytes(sent[m].sector)
WriteWithIndex(k) == sent[CHOOSE m \in WriteIdx : SectorIndex(m) = k]
\* payloads of the Writes with sector indices 0..k-1, in that order
RECURSIVE ConcatWrites(_)
ConcatWrites(k) ==
  IF k = 0 THEN <<>> ELSE ConcatWrites(k - 1) \o WriteWithIndex(k - 1).data

\* a programming run that has returned and in which every get_reply
\* returned Success
AllSuccessRun ==
  command = "Program" /\ pc = "done" /\ result = "Ok" /\ failedAt = 0

\* C11: in an all-Success programming run the Write payloads, concatenated
\* in sector-index order, are exactly the padded image.
ChunkingComplete ==
  AllSuccessRun =>
    /\ \A k \in 0..(NumWrites - 1) : \E m \in WriteIdx : SectorIndex(m) = k
    /\ ConcatWrites(NumWrites) = binfile

ChunkingCompleteWitness ==
  /\ AllSuccessRun
  /\ NumWrites >= 2
  /\ Len(sent[Len(sent)].data) < chunk_size
  /\ Len(binfile) > Len(file)

\* number of chunks of a padded image of length P: ceil(P / chunk_size)
NumChunks(P) == (P + chunk_size - 1) \div chunk_size

EraseOnceAndFirst ==
  (command = "Program" /\ sent # <<>>) =>
    /\ IsErase(1)
    /\ Cardinality({m \in 1..Len(sent) : IsErase(m)}) = 1
    /\ \A m \in WriteIdx : m > 1

EraseOnceAndFirstWitness ==
  /\ command = "Program" /\ pc = "done"
  /\ Len(sent) >= 3 /\ IsErase(1) /\ IsWrite(2) /\ IsWrite(3)

\* C14: a programming run sends the Erase at most once and at most one
\* Write per sector index, whatever the replies and receive failures.
NoRetry ==
  command = "Program" =>
    /\ Cardinality({m \in 1..Len(sent) : IsErase(m)}) <= 1
    /\ \A m1, m2 \in WriteIdx : SectorIndex(m1) = SectorIndex(m2) => m1 = m2

NoRetryWitness ==
  /\ command = "Program" /\ pc = "done"
  /\ failedAt = 2 /\ timeouts > 0
  /\ NumWrites >= 2

PeerRepliedSuccess ==
  answered >= 1 /\ stream # <<>> /\ stream[1] = [b |-> Success, c |-> 1]

\* C16 (as stated): the info operation sends exactly one Info command and
\* nothing else, and reports success when the peer replies Success.
InfoSendsExactlyOne ==
  (command = "Info" /\ pc = "done") =>
    /\ Len(sent) = 1 /\ sent[1].tag = "Info"
    /\ PeerRepliedSuccess => result = "Ok"

\* C16 (amended): the info operation sends only Info, at most once: exactly
\* once when the socket write succeeds and the operation returns Ok, not at
\* all when the write fails and the error is returned; when the peer
\* replies Success the operation has reported success.
InfoSendsAtMostOne ==
  command = "Info" =>
    /\ \A m \in 1..Len(sent) : sent[m].tag = "Info"
    /\ Len(sent) <= 1
    /\ pc = "done" => /\ result \in {"Ok", "Err"}
                      /\ result = "Ok" <=> Len(sent) = 1
    /\ PeerRepliedSuccess => (pc = "done" /\ result = "Ok")

InfoSendsAtMostOneWitness ==
  /\ command = "Info" /\ pc = "done"
  /\ PeerRepliedSuccess /\ result = "Ok"
  /\ Len(sent) = 1

\* C17: when an operation ends normally every command it sent has been
\* followed by one receive, so receives and commands are equal in number.
SendReceivePaired ==
  (pc = "done" /\ result = "Ok") => recvs = Len(sent)

\* the thread always takes its next step and every blocking read returns:
\* the socket has a read timeout, and the peer answers or closes
SpecLive == Init /\ [][Next]_vars /\ WF_vars(Next)

\* C18: a programming run reaches a terminal outcome, having sent at most
\* 1 + ceil(padded_length / chunk_size) commands.
ProgramTerminates ==
  /\ (command = "Program") ~> (pc = "done")
  /\ [](command = "Program" /\ chunk_size >= 1
          => Len(sent) <= 1 + NumChunks(PaddedLength(Len(file))))

ProgramTerminatesWitness ==
  /\ command = "Program" /\ pc = "done" /\ chunk_size >= 1
  /\ Len(sent) = 1 + NumChunks(PaddedLength(Len(file)))
  /\ NumWrites >= 2
  /\ timeouts > 0

\* C19: a programming run returns Err exactly when the socket write of the
\* Erase failed, and then it is over with no command sent (so no Write) and
\* no receive done.
EraseSendFailureReturned ==
  command = "Program" =>
    /\ result = "Err" => (pc = "done" /\ sent = <<>> /\ recvs = 0)
    /\ (pc \notin {"main", "erase_send"} /\ chunk_size >= 1 /\ sent = <<>>)
         => (pc = "done" /\ result = "Err" /\ recvs = 0)

EraseSendFailureReturnedWitness ==
  /\ command = "Program" /\ pc = "done" /\ result = "Err"
  /\ segments # <<>> /\ sent = <<>> /\ recvs = 0
====
